---- MODULE Spec2Model ----
(***************************************************************************)
(* Price-series store (core/ohlc.py, OHLCContainer) and indicator engine   *)
(* (core/indicators.py, TechnicalIndicators).                              *)
(*                                                                         *)
(* Floating-point values are modelled as exact values:                     *)
(*   <<n, d>> with d > 0, gcd(n, d) = 1   the rational n/d                 *)
(*   <<0, 0>>                             NaN                              *)
(*   <<1, 0>>, <<-1, 0>>                  +inf, -inf                       *)
(* with numpy's rules for NaN and for division by zero (x/0 = +-inf,       *)
(* 0/0 = NaN, no exception).  Python's None is <<"None">>.                 *)
(* Arrays are sequences; At(s, i) reads the source's 0-based index i.      *)
(***************************************************************************)
EXTENDS Integers, Sequences, FiniteSets, TLC

VARIABLES
    max_size,             \* OHLCContainer.max_size
    container,            \* OHLCContainer.container: sequence of candles
    last_rsi,             \* OHLCContainer.last_rsi
    last_moving_average,  \* OHLCContainer.last_moving_average
    last_slope,           \* OHLCContainer.last_slope
    ret,                  \* the last call and what it returned: [op, args, value]
    series,               \* the array handed to the indicator functions
    added,                \* history: candles passed to add() since construction or clear()
    evaluated             \* history: apply_to_container ran on >= 14 candles since construction or clear()

vars == <<max_size, container, last_rsi, last_moving_average, last_slope, ret, series,
          added, evaluated>>

-----------------------------------------------------------------------------
(* Float arithmetic *)

NaN == <<0, 0>>
PosInf == <<1, 0>>
NegInf == <<-1, 0>>
None == <<"None">>

Num(k) == <<k, 1>>

Abs(k) == IF k < 0 THEN -k ELSE k

Sign(k) == IF k < 0 THEN -1 ELSE IF k > 0 THEN 1 ELSE 0

RECURSIVE GCD(_, _)
GCD(a, b) == IF b = 0 THEN a ELSE GCD(b, a % b)

\* the rational n/d, d # 0, in lowest terms with a positive denominator
Norm(n, d) ==
    LET g == GCD(Abs(n), Abs(d))
        s == Sign(d)
    IN  <<(s * n) \div g, (s * d) \div g>>

isnan(x) == x = NaN

IsInf(x) == x = PosInf \/ x = NegInf

IsFinite(x) == x[2] > 0

FNeg(a) == <<-a[1], a[2]>>

FAdd(a, b) ==
    IF isnan(a) \/ isnan(b) THEN NaN
    ELSE IF IsInf(a) /\ IsInf(b) THEN (IF a = b THEN a ELSE NaN)
    ELSE IF IsInf(a) THEN a
    ELSE IF IsInf(b) THEN b
    ELSE LET g == GCD(a[2], b[2])
         IN  Norm(a[1] * (b[2] \div g) + b[1] * (a[2] \div g), (a[2] \div g) * b[2])

FSub(a, b) == FAdd(a, FNeg(b))

FMul(a, b) ==
    IF isnan(a) \/ isnan(b) THEN NaN
    ELSE IF IsInf(a) \/ IsInf(b)
         THEN (IF a[1] = 0 \/ b[1] = 0 THEN NaN ELSE <<Sign(a[1]) * Sign(b[1]), 0>>)
    ELSE LET g1 == GCD(Abs(a[1]), b[2])
             g2 == GCD(Abs(b[1]), a[2])
         IN  Norm((a[1] \div g1) * (b[1] \div g2), (a[2] \div g2) * (b[2] \div g1))

FDiv(a, b) ==
    IF isnan(a) \/ isnan(b) THEN NaN
    ELSE IF IsInf(a) THEN (IF IsInf(b) THEN NaN
                           ELSE IF b[1] < 0 THEN FNeg(a) ELSE a)
    ELSE IF IsInf(b) THEN Num(0)
    ELSE IF b[1] = 0 THEN (IF a[1] = 0 THEN NaN ELSE <<Sign(a[1]), 0>>)
    ELSE LET g1 == GCD(Abs(a[1]), Abs(b[1]))
             g2 == GCD(a[2], b[2])
         IN  Norm((a[1] \div g1) * (b[2] \div g2), (a[2] \div g2) * (b[1] \div g1))

\* a <= b on values that are not NaN
FLeq(a, b) ==
    IF a = b THEN TRUE
    ELSE IF a = NegInf \/ b = PosInf THEN TRUE
    ELSE IF a = PosInf \/ b = NegInf THEN FALSE
    ELSE a[1] * b[2] <= b[1] * a[2]

-----------------------------------------------------------------------------
(* Arrays *)

At(s, i) == s[i + 1]

\* s[lo:hi] of the source, 0 <= lo <= hi <= len(s)
Slice(s, lo, hi) == [k \in 1..(hi - lo) |-> s[lo + k]]

\* np.array([np.nan] * n), np.zeros_like(prices) * np.nan
NanArray(n) == [k \in 1..n |-> NaN]

RECURSIVE FSum(_)
FSum(s) == IF s = <<>> THEN Num(0) ELSE FAdd(FSum(Slice(s, 0, Len(s) - 1)), s[Len(s)])

\* np.mean
mean(s) == FDiv(FSum(s), Num(Len(s)))

-----------------------------------------------------------------------------
(* Square roots.  The square root of a rational that is not a perfect     *)
(* square is kept exactly, as <<base, coef, rad>> = base + coef*sqrt(rad) *)
(* with base, coef rational, coef # 0 and rad a positive rational.        *)

RECURSIVE IntSqrtFrom(_, _)
IntSqrtFrom(n, k) == IF (k + 1) * (k + 1) > n THEN k ELSE IntSqrtFrom(n, k + 1)

\* the largest k with k*k <= n
IntSqrt(n) == IntSqrtFrom(n, 0)

IsSquare(n) == IntSqrt(n) * IntSqrt(n) = n

IsSurd(v) == Len(v) = 3

\* np.sqrt on a value that is NaN, +inf or a rational >= 0
FSqrt(a) ==
    IF isnan(a) \/ IsInf(a) THEN a
    ELSE IF IsSquare(a[1]) /\ IsSquare(a[2]) THEN <<IntSqrt(a[1]), IntSqrt(a[2])>>
    ELSE <<Num(0), Num(1), a>>

\* v * q, q a rational or NaN
XMul(v, q) ==
    IF ~IsSurd(v) THEN FMul(v, q)
    ELSE IF ~IsFinite(q) THEN NaN
    ELSE IF q[1] = 0 THEN Num(0)
    ELSE <<FMul(v[1], q), FMul(v[2], q), v[3]>>

\* q + v, q a rational or NaN
XAdd(q, v) ==
    IF ~IsSurd(v) THEN FAdd(q, v)
    ELSE IF ~IsFinite(q) THEN NaN
    ELSE <<FAdd(q, v[1]), v[2], v[3]>>

\* q - v, q a rational or NaN
XSub(q, v) ==
    IF ~IsSurd(v) THEN FSub(q, v)
    ELSE IF ~IsFinite(q) THEN NaN
    ELSE <<FSub(q, v[1]), FNeg(v[2]), v[3]>>

\* sum((x - m)^2 for x in s)
sum_sq_dev(s, m) == FSum([k \in 1..Len(s) |-> FMul(FSub(s[k], m), FSub(s[k], m))])

\* np.std(s) with the default ddof=0: sqrt(sum((x - mean)^2) / len)
std_ddof0(s) == FSqrt(FDiv(sum_sq_dev(s, mean(s)), Num(Len(s))))

\* np.std(s, ddof=1): sqrt(sum((x - mean)^2) / (len - 1))
std_ddof1(s) == FSqrt(FDiv(sum_sq_dev(s, mean(s)), Num(Len(s) - 1)))

-----------------------------------------------------------------------------
(* TechnicalIndicators: the array transforms *)

\* calculate_sma with the window's end off by one: prices[i - period + 1:i]
sma_window_short(prices, period) ==
    IF Len(prices) < period THEN NanArray(Len(prices))
    ELSE [k \in 1..Len(prices) |->
            IF k - 1 >= period - 1
            THEN mean(Slice(prices, k - period, k - 1))
            ELSE NaN]

calculate_sma(prices, period) ==
    IF Len(prices) < period THEN NanArray(Len(prices))
    ELSE [k \in 1..Len(prices) |->
            LET i == k - 1
            IN  IF i >= period - 1
                THEN mean(Slice(prices, i - period + 1, i + 1))
                ELSE NaN]

\* the loop of calculate_ema: for i in range(i, len(prices))
RECURSIVE ema_loop(_, _, _, _)
ema_loop(prices, multiplier, ema, i) ==
    IF i >= Len(prices) THEN ema
    ELSE ema_loop(prices, multiplier,
                  [ema EXCEPT ![i + 1] =
                      FAdd(FMul(FSub(At(prices, i), At(ema, i - 1)), multiplier),
                           At(ema, i - 1))],
                  i + 1)

\* calculate_ema with the multiplier 2.0 / period
ema_wrong_multiplier(prices, period) ==
    IF Len(prices) < period THEN NanArray(Len(prices))
    ELSE ema_loop(prices, FDiv(Num(2), Num(period)),
                  [NanArray(Len(prices)) EXCEPT ![period] = mean(Slice(prices, 0, period))],
                  period)

calculate_ema(prices, period) ==
    IF Len(prices) < period THEN NanArray(Len(prices))
    ELSE LET ema0 == [NanArray(Len(prices)) EXCEPT ![period] = mean(Slice(prices, 0, period))]
             multiplier == FDiv(Num(2), Num(period + 1))
         IN  ema_loop(prices, multiplier, ema0, period)

\* np.diff
diff(prices) == [k \in 1..(Len(prices) - 1) |-> FSub(prices[k + 1], prices[k])]

\* the smoothing loop of calculate_rsi: for i in range(i, len(prices))
RECURSIVE rsi_loop(_, _, _, _)
rsi_loop(xs, period, avg, i) ==
    IF i >= Len(xs) THEN avg
    ELSE rsi_loop(xs, period,
                  [avg EXCEPT ![i + 1] =
                      FDiv(FAdd(FMul(At(avg, i - 1), Num(period - 1)), At(xs, i)),
                           Num(period))],
                  i + 1)

\* gains[deltas > 0] = deltas[deltas > 0], with the zero np.insert prepends
gains_of(deltas) ==
    [k \in 1..(Len(deltas) + 1) |->
        IF k > 1 /\ deltas[k - 1][1] > 0 THEN deltas[k - 1] ELSE Num(0)]

\* losses without the sign change: losses[deltas < 0] = deltas[deltas < 0]
losses_not_negated(deltas) ==
    [k \in 1..(Len(deltas) + 1) |->
        IF k > 1 /\ deltas[k - 1][1] < 0 THEN deltas[k - 1] ELSE Num(0)]

\* losses[deltas < 0] = -deltas[deltas < 0], with the zero np.insert prepends
losses_of(deltas) ==
    [k \in 1..(Len(deltas) + 1) |->
        IF k > 1 /\ deltas[k - 1][1] < 0 THEN FNeg(deltas[k - 1]) ELSE Num(0)]

\* avg_gains / avg_losses: NaN before index period, the mean of xs[1:period+1] at
\* index period, Wilder's smoothing after it
smoothed(xs, period) ==
    rsi_loop(xs, period,
             [NanArray(Len(xs)) EXCEPT ![period + 1] = mean(Slice(xs, 1, period + 1))],
             period + 1)

\* rs = avg_gains / avg_losses; rsi = 100 - (100 / (1 + rs))
rsi_of(avg_gains, avg_losses) ==
    [k \in 1..Len(avg_gains) |->
        FSub(Num(100), FDiv(Num(100), FAdd(Num(1), FDiv(avg_gains[k], avg_losses[k]))))]

calculate_rsi(prices, period) ==
    IF Len(prices) <= period THEN NanArray(Len(prices))
    ELSE rsi_of(smoothed(gains_of(diff(prices)), period),
                smoothed(losses_of(diff(prices)), period))

\* elementwise a - b
array_sub(a, b) == [k \in 1..Len(a) |-> FSub(a[k], b[k])]

\* the signal line and the histogram of a MACD line
macd_of(macd_line, signal_line) == <<macd_line, signal_line, array_sub(macd_line, signal_line)>>

macd_signal(macd_line, signal_period) ==
    macd_of(macd_line, calculate_ema(macd_line, signal_period))

calculate_macd(prices, fast_period, slow_period, signal_period) ==
    macd_signal(array_sub(calculate_ema(prices, fast_period),
                          calculate_ema(prices, slow_period)),
                signal_period)

\* np.std(prices[i - period + 1:i + 1], ddof=1) for i >= period - 1, NaN before
rolling_std_of(prices, period) ==
    [k \in 1..Len(prices) |->
        IF k - 1 >= period - 1
        THEN std_ddof1(Slice(prices, k - period, k))
        ELSE NaN]

\* middle_band + (rolling_std * num_std), middle_band, middle_band - (rolling_std * num_std)
bands_of(middle_band, rolling_std, num_std) ==
    <<[k \in 1..Len(middle_band) |-> XAdd(middle_band[k], XMul(rolling_std[k], num_std))],
      middle_band,
      [k \in 1..Len(middle_band) |-> XSub(middle_band[k], XMul(rolling_std[k], num_std))]>>

calculate_bollinger_bands(prices, period, num_std) ==
    IF Len(prices) < period
    THEN <<NanArray(Len(prices)), NanArray(Len(prices)), NanArray(Len(prices))>>
    ELSE bands_of(calculate_sma(prices, period), rolling_std_of(prices, period), num_std)

\* np.polyfit(x, y, 1)[0] for x = np.arange(len(y)): the least-squares slope
\* (len*Sxy - Sx*Sy) / (len*Sxx - Sx*Sx)
polyfit_slope(y) ==
    LET n == Len(y)
        Sx == (n * (n - 1)) \div 2
        Sxx == ((n - 1) * n * (2 * n - 1)) \div 6
        Sy == FSum(y)
        Sxy == FSum([k \in 1..n |-> FMul(Num(k - 1), y[k])])
    IN  FDiv(FSub(FMul(Num(n), Sxy), FMul(Num(Sx), Sy)), Num(n * Sxx - Sx * Sx))

calculate_slope(prices, period) ==
    IF Len(prices) < period THEN NanArray(Len(prices))
    ELSE [k \in 1..Len(prices) |->
            LET i == k - 1
            IN  IF i >= period - 1
                THEN polyfit_slope(Slice(prices, i - period + 1, i + 1))
                ELSE NaN]

-----------------------------------------------------------------------------
(* OHLC and OHLCContainer *)

\* OHLC.__init__: float() of the prices and the volume, int() of the timestamp
OHLC(open_price, high_price, low_price, close_price, timestamp, volume) ==
    [open |-> Num(open_price), high |-> Num(high_price), low |-> Num(low_price),
     close |-> Num(close_price), timestamp |-> timestamp, volume |-> Num(volume)]

\* self.container[-self.max_size:] of a list c: the last n elements for n >= 1,
\* and the whole list for n = 0, because -0 is 0
LastSlice(c, n) ==
    IF n = 0 THEN c
    ELSE IF n >= Len(c) THEN c
    ELSE Slice(c, Len(c) - n, Len(c))

\* add() trimming from the wrong end: self.container[:self.max_size]
add_keeps_oldest(c, cap, ohlc) ==
    IF Len(c) + 1 > cap THEN Slice(Append(c, ohlc), 0, cap) ELSE Append(c, ohlc)

\* the container after OHLCContainer.add(ohlc)
add(c, cap, ohlc) ==
    LET appended == Append(c, ohlc)
    IN  IF Len(appended) > cap THEN LastSlice(appended, cap) ELSE appended

get_close_prices(c) == [k \in 1..Len(c) |-> c[k].close]
get_high_prices(c) == [k \in 1..Len(c) |-> c[k].high]
get_low_prices(c) == [k \in 1..Len(c) |-> c[k].low]
get_open_prices(c) == [k \in 1..Len(c) |-> c[k].open]
get_volumes(c) == [k \in 1..Len(c) |-> c[k].volume]
get_timestamps(c) == [k \in 1..Len(c) |-> c[k].timestamp]

get_latest(c) == IF c = <<>> THEN None ELSE c[Len(c)]

has_enough_data(c, min_data_points) == Len(c) >= min_data_points

-----------------------------------------------------------------------------
(* TechnicalIndicators.apply_to_container *)

MIN_DATA_POINTS == 14
SMA_PERIOD == 20
EMA_FAST == 12
EMA_SLOW == 26
RSI_PERIOD == 14
MACD_SIGNAL == 9
BOLLINGER_PERIOD == 20
BOLLINGER_STD == 2
SLOPE_PERIOD == 5

\* the last value stored without the NaN test
last_unchecked(a) == a[Len(a)]

\* a[-1] if not np.isnan(a[-1]) else None
last_or_none(a) == IF ~isnan(a[Len(a)]) THEN a[Len(a)] ELSE None

\* the dictionary apply_to_container returns
indicator_map(sma_20, ema_12, ema_26, rsi_14, macd, bands, slope_5) ==
    [sma_20 |-> sma_20, ema_12 |-> ema_12, ema_26 |-> ema_26, rsi_14 |-> rsi_14,
     macd_line |-> macd[1], signal_line |-> macd[2], histogram |-> macd[3],
     upper_band |-> bands[1], middle_band |-> bands[2], lower_band |-> bands[3],
     slope_5 |-> slope_5]

\* the indicators apply_to_container computes from the close prices of >= 14 candles
compute_indicators(close_prices) ==
    indicator_map(calculate_sma(close_prices, SMA_PERIOD),
                  calculate_ema(close_prices, EMA_FAST),
                  calculate_ema(close_prices, EMA_SLOW),
                  calculate_rsi(close_prices, RSI_PERIOD),
                  calculate_macd(close_prices, EMA_FAST, EMA_SLOW, MACD_SIGNAL),
                  calculate_bollinger_bands(close_prices, BOLLINGER_PERIOD, Num(BOLLINGER_STD)),
                  calculate_slope(close_prices, SLOPE_PERIOD))

-----------------------------------------------------------------------------
(* The candles the exploration feeds to the store *)

Prices == {1, 2}

\* the candles passed to add()
Candles == {OHLC(p, p + 1, p - 1, p, 0, 10 * p) : p \in Prices}

\* close prices that never rise, or never fall, in insertion order
Monotone(close_prices) ==
    \/ \A k \in 2..Len(close_prices) : FLeq(close_prices[k - 1], close_prices[k])
    \/ \A k \in 2..Len(close_prices) : FLeq(close_prices[k], close_prices[k - 1])

\* The exact value of EMA(12) at index 19 has a denominator of 12 * 13^8, beyond
\* TLC's 32-bit integers, unless the first 12 closes are equal: the windows explored
\* are those of fewer than 20 candles, and those of 20 that start with 12 equal closes.
Representable(close_prices) ==
    \/ Len(close_prices) < SMA_PERIOD
    \/ /\ Len(close_prices) = SMA_PERIOD
       /\ \A k \in 1..EMA_FAST : close_prices[k] = close_prices[1]

\* the close-price arrays of >= 14 candles that the exploration reaches
ClosePriceArrays ==
    {w \in {[k \in 1..n |-> Num(IF k <= a THEN p ELSE q)] :
                n \in MIN_DATA_POINTS..SMA_PERIOD, a \in 0..SMA_PERIOD,
                p \in Prices, q \in Prices} :
        Representable(w)}

\* compute_indicators, evaluated once per array
indicator_table == [w \in ClosePriceArrays |-> compute_indicators(w)]

indicators(close_prices) ==
    IF close_prices \in DOMAIN indicator_table
    THEN indicator_table[close_prices]
    ELSE compute_indicators(close_prices)

\* {}
EmptyMap == [k \in {} |-> NaN]

\* the returned map and the caches apply_to_container writes, given the indicators
update_last_values(ind) ==
    [value |-> ind,
     last_rsi |-> last_or_none(ind.rsi_14),
     last_moving_average |-> last_or_none(ind.sma_20),
     last_slope |-> last_or_none(ind.slope_5)]

\* apply_to_container with the minimum taken from the shortest indicator period
apply_from_slope_period(c, rsi, ma, sl) ==
    IF Len(c) < SLOPE_PERIOD
    THEN [value |-> EmptyMap, last_rsi |-> rsi, last_moving_average |-> ma, last_slope |-> sl]
    ELSE update_last_values(indicators(get_close_prices(c)))

\* a cache write that keeps the old value where the new one is None
keep_stale(r, rsi, ma, sl) ==
    [value |-> r.value,
     last_rsi |-> IF r.last_rsi = None THEN rsi ELSE r.last_rsi,
     last_moving_average |-> IF r.last_moving_average = None THEN ma ELSE r.last_moving_average,
     last_slope |-> IF r.last_slope = None THEN sl ELSE r.last_slope]

\* apply_to_container that overwrites a cache only with a defined value
apply_keeps_stale(c, rsi, ma, sl) ==
    IF Len(c) < MIN_DATA_POINTS
    THEN [value |-> EmptyMap, last_rsi |-> rsi, last_moving_average |-> ma, last_slope |-> sl]
    ELSE keep_stale(update_last_values(indicators(get_close_prices(c))), rsi, ma, sl)

\* apply_to_container on store (c, rsi, ma, sl): the returned map and the three caches
apply_to_container(c, rsi, ma, sl) ==
    IF Len(c) < MIN_DATA_POINTS
    THEN [value |-> EmptyMap, last_rsi |-> rsi, last_moving_average |-> ma, last_slope |-> sl]
    ELSE update_last_values(indicators(get_close_prices(c)))

-----------------------------------------------------------------------------
(* The store and the engine as a state machine: one action per call *)

\* bounds of the exploration
MaxSmallCap == 2
MaxAdds == 22

\* the capacities a store is constructed with
Capacities == (0..MaxSmallCap) \cup {RSI_PERIOD + 1, SMA_PERIOD}

\* OHLCContainer(max_size)
Init ==
    /\ max_size \in Capacities
    /\ container = <<>>
    /\ last_rsi = None
    /\ last_moving_average = None
    /\ last_slope = None
    /\ ret = [op |-> "__init__", args |-> <<max_size>>, value |-> None]
    /\ series = <<>>
    /\ added = <<>>
    /\ evaluated = FALSE

AddCall ==
    \E ohlc \in Candles :
        /\ Len(added) < MaxAdds
        /\ Monotone(get_close_prices(Append(added, ohlc)))
        /\ Representable(get_close_prices(add(container, max_size, ohlc)))
        /\ container' = add(container, max_size, ohlc)
        /\ added' = Append(added, ohlc)
        /\ ret' = [op |-> "add", args |-> <<ohlc>>, value |-> None]
        /\ UNCHANGED <<max_size, last_rsi, last_moving_average, last_slope, series, evaluated>>

\* clear() that forgets last_slope
ClearKeepsSlope ==
    /\ container' = <<>>
    /\ last_rsi' = None
    /\ last_moving_average' = None
    /\ added' = <<>>
    /\ evaluated' = FALSE
    /\ ret' = [op |-> "clear", args |-> <<>>, value |-> None]
    /\ UNCHANGED <<max_size, series, last_slope>>

ClearCall ==
    /\ container' = <<>>
    /\ last_rsi' = None
    /\ last_moving_average' = None
    /\ last_slope' = None
    /\ added' = <<>>
    /\ evaluated' = FALSE
    /\ ret' = [op |-> "clear", args |-> <<>>, value |-> None]
    /\ UNCHANGED <<max_size, series>>

ApplyCall ==
    \E r \in {apply_to_container(container, last_rsi, last_moving_average, last_slope)} :
        /\ last_rsi' = r.last_rsi
        /\ last_moving_average' = r.last_moving_average
        /\ last_slope' = r.last_slope
        /\ ret' = [op |-> "apply_to_container", args |-> <<>>, value |-> r.value]
        /\ evaluated' = (evaluated \/ Len(container) >= MIN_DATA_POINTS)
        /\ UNCHANGED <<max_size, container, series, added>>

\* a call that only reads the store
Returns(op, args, value) ==
    /\ ret' = [op |-> op, args |-> args, value |-> value]
    /\ UNCHANGED <<max_size, container, last_rsi, last_moving_average, last_slope,
                   series, added, evaluated>>

GetClosePricesCall == Returns("get_close_prices", <<>>, get_close_prices(container))
GetHighPricesCall == Returns("get_high_prices", <<>>, get_high_prices(container))
GetLowPricesCall == Returns("get_low_prices", <<>>, get_low_prices(container))
GetOpenPricesCall == Returns("get_open_prices", <<>>, get_open_prices(container))
GetVolumesCall == Returns("get_volumes", <<>>, get_volumes(container))
GetTimestampsCall == Returns("get_timestamps", <<>>, get_timestamps(container))
GetLatestCall == Returns("get_latest", <<>>, get_latest(container))
HasEnoughDataCall ==
    Returns("has_enough_data", <<MIN_DATA_POINTS>>, has_enough_data(container, MIN_DATA_POINTS))

Next ==
    \/ AddCall
    \/ ClearCall
    \/ ApplyCall
    \/ GetClosePricesCall
    \/ GetHighPricesCall
    \/ GetLowPricesCall
    \/ GetOpenPricesCall
    \/ GetVolumesCall
    \/ GetTimestampsCall
    \/ GetLatestCall
    \/ HasEnoughDataCall

Spec == Init /\ [][Next]_vars

-----------------------------------------------------------------------------
(* The indicator functions on their own.  They are static and keep no      *)
(* state: a series is chosen, then one function is called on it.           *)

\* bounds of the exploration
MaxSeriesLen == 5
MaxPeriod == 3

SeriesPrices == {1, 2, 3}

SeriesInputs == UNION {[1..n -> {Num(p) : p \in SeriesPrices}] : n \in 0..MaxSeriesLen}

Periods == 1..MaxPeriod

\* the band widths num_std passed to calculate_bollinger_bands: none, one, the default
Widths == {Num(0), Num(1), Num(BOLLINGER_STD)}

InitFn ==
    /\ series \in SeriesInputs
    /\ ret = [op |-> "none", args |-> <<>>, value |-> None]
    /\ max_size = 0
    /\ container = <<>>
    /\ last_rsi = None
    /\ last_moving_average = None
    /\ last_slope = None
    /\ added = <<>>
    /\ evaluated = FALSE

\* a call of an indicator function on the series
Computes(op, args, value) ==
    /\ ret.op = "none"
    /\ ret' = [op |-> op, args |-> args, value |-> value]
    /\ UNCHANGED <<max_size, container, last_rsi, last_moving_average, last_slope,
                   series, added, evaluated>>

SmaCall == \E period \in Periods :
    Computes("calculate_sma", <<period>>, calculate_sma(series, period))

EmaCall == \E period \in Periods :
    Computes("calculate_ema", <<period>>, calculate_ema(series, period))

RsiCall == \E period \in Periods :
    Computes("calculate_rsi", <<period>>, calculate_rsi(series, period))

MacdCall == \E fast_period \in Periods, slow_period \in Periods, signal_period \in Periods :
    /\ fast_period < slow_period
    /\ Computes("calculate_macd", <<fast_period, slow_period, signal_period>>,
                calculate_macd(series, fast_period, slow_period, signal_period))

BollingerCall == \E period \in Periods, num_std \in Widths :
    Computes("calculate_bollinger_bands", <<period, num_std>>,
             calculate_bollinger_bands(series, period, num_std))

SlopeCall == \E period \in Periods :
    Computes("calculate_slope", <<period>>, calculate_slope(series, period))

NextFn ==
    \/ SmaCall
    \/ EmaCall
    \/ RsiCall
    \/ MacdCall
    \/ BollingerCall
    \/ SlopeCall

SpecFn == InitFn /\ [][NextFn]_vars

-----------------------------------------------------------------------------
(* Properties *)

\* the source's index i of an array, for i in 0..Len(a)-1
Indices(a) == 0..(Len(a) - 1)

Defined(v) == ~isnan(v)

\* the last entry of a that is not NaN, or None when there is none
LastDefined(a) ==
    IF \E i \in Indices(a) : Defined(At(a, i))
    THEN At(a, CHOOSE i \in Indices(a) :
                   Defined(At(a, i)) /\ \A j \in Indices(a) : Defined(At(a, j)) => j <= i)
    ELSE None

\* the last n elements of s, in order
LastN(s, n) == SubSeq(s, Len(s) - n + 1, Len(s))

IndicatorKeys ==
    {"sma_20", "ema_12", "ema_26", "rsi_14", "macd_line", "signal_line", "histogram",
     "upper_band", "middle_band", "lower_band", "slope_5"}

\* C1: with capacity C >= 1, once more than C candles were added (no clear() in
\* between), the store holds exactly C candles: the last C added, in the order added.
C1_LastCKept ==
    (max_size >= 1 /\ Len(added) > max_size)
        => (Len(container) = max_size /\ container = LastN(added, max_size))

\* C1 witness: a store of capacity 15 that has evicted candles of both closes
C1_Witness ==
    /\ max_size = RSI_PERIOD + 1
    /\ Len(added) > max_size + 1
    /\ ret.op = "add"
    /\ added[1].close # added[Len(added)].close

\* C2 (as claimed): after every call the store holds at most max_size candles,
\* for every capacity max_size >= 0.
C2_AtMostMaxSize == Len(container) <= max_size

\* C3: apply_to_container on fewer than 14 candles returns an empty map and leaves
\* the three caches and the candle sequence as they were.
C3_TooFewCandles ==
    [][(ret'.op = "apply_to_container" /\ Len(container) < MIN_DATA_POINTS)
          => /\ DOMAIN ret'.value = {}
             /\ last_rsi' = last_rsi
             /\ last_moving_average' = last_moving_average
             /\ last_slope' = last_slope
             /\ container' = container]_vars

\* C3 witness: apply_to_container has returned on a store of 13 candles
C3_Witness ==
    /\ ret.op = "apply_to_container"
    /\ Len(container) = MIN_DATA_POINTS - 1
    /\ DOMAIN ret.value = {}

\* C4: apply_to_container on n >= 14 candles returns a map of exactly the eleven keys,
\* each an array of length n, and sets last_rsi, last_moving_average and last_slope to
\* the last defined entry of RSI(14), SMA(20) and Slope(5) of the closes, or to None
\* when the array has no defined entry.
C4_MapAndCaches ==
    (ret.op = "apply_to_container" /\ Len(container) >= MIN_DATA_POINTS)
        => /\ DOMAIN ret.value = IndicatorKeys
           /\ \A key \in IndicatorKeys : Len(ret.value[key]) = Len(container)
           /\ ret.value.rsi_14 = calculate_rsi(get_close_prices(container), RSI_PERIOD)
           /\ ret.value.sma_20 = calculate_sma(get_close_prices(container), SMA_PERIOD)
           /\ ret.value.slope_5 = calculate_slope(get_close_prices(container), SLOPE_PERIOD)
           /\ last_rsi = LastDefined(ret.value.rsi_14)
           /\ last_moving_average = LastDefined(ret.value.sma_20)
           /\ last_slope = LastDefined(ret.value.slope_5)

\* C4 witness: apply_to_container has returned on a full store of capacity 15 whose
\* RSI(14) has no defined entry (last_rsi is None) while Slope(5) has
C4_Witness ==
    /\ ret.op = "apply_to_container"
    /\ Len(container) = RSI_PERIOD + 1
    /\ Len(added) > Len(container)
    /\ last_rsi = None
    /\ last_slope # None
    /\ added[1].close # added[Len(added)].close

\* C5: the three caches change only in apply_to_container and clear(); clear() empties
\* the candle sequence and sets all three to None; so while apply_to_container has not
\* run on >= 14 candles since construction or the last clear(), all three are None.
C5_CachesWrittenByApplyAndClear ==
    /\ [][/\ <<last_rsi, last_moving_average, last_slope>>'
                 # <<last_rsi, last_moving_average, last_slope>>
              => ret'.op \in {"apply_to_container", "clear"}
          /\ ret'.op = "clear"
              => (container' = <<>> /\ last_rsi' = None
                  /\ last_moving_average' = None /\ last_slope' = None)]_vars
    /\ [](~evaluated => (last_rsi = None /\ last_moving_average = None /\ last_slope = None))

\* C5 witness: a store of >= 14 candles on which apply_to_container has not run since
\* construction or the last clear(), after get_close_prices() has read it
C5_Witness ==
    /\ ~evaluated
    /\ Len(container) >= MIN_DATA_POINTS
    /\ ret.op = "get_close_prices"
    /\ last_slope = None

\* the arguments of the indicator call in ret
ArgPeriod == ret.args[1]

\* C6 (as claimed): with fast < slow and len(series) >= slow + signal - 1, macd_line is
\* defined exactly at the indices i >= slow - 1, and signal_line and histogram are
\* defined exactly at the indices i >= slow + signal - 2.
C6_MacdDefinedRegions ==
    (ret.op = "calculate_macd" /\ Len(series) >= ret.args[2] + ret.args[3] - 1)
        => \A i \in Indices(series) :
              /\ Defined(At(ret.value[1], i)) <=> (i >= ret.args[2] - 1)
              /\ Defined(At(ret.value[2], i)) <=> (i >= ret.args[2] + ret.args[3] - 2)
              /\ Defined(At(ret.value[3], i)) <=> (i >= ret.args[2] + ret.args[3] - 2)

\* C7 (as claimed): for len(series) > period, at every index i >= period the RSI is a
\* number: 100 when avgLoss[i] = 0 and avgGain[i] > 0, 50 when both are 0, and never
\* NaN or infinite.
C7_RsiZeroLossPolicy ==
    (ret.op = "calculate_rsi" /\ Len(series) > ArgPeriod)
        => \A i \in ArgPeriod..(Len(series) - 1) :
              /\ IsFinite(At(ret.value, i))
              /\ (At(smoothed(losses_of(diff(series)), ArgPeriod), i) = Num(0)
                    => At(ret.value, i) =
                         (IF At(smoothed(gains_of(diff(series)), ArgPeriod), i) = Num(0)
                          THEN Num(50) ELSE Num(100)))

\* the sum of the integers s[lo..hi-1] (0-based) of a series of whole numbers
RECURSIVE WholeSum(_, _, _)
WholeSum(s, lo, hi) == IF lo >= hi THEN 0 ELSE At(s, lo)[1] + WholeSum(s, lo + 1, hi)

\* C8: calculate_sma returns an array as long as the series; every entry is undefined
\* when len(series) < period; otherwise the entries before index period-1 are undefined
\* and the entry at i >= period-1 is the arithmetic mean of series[i-period+1 .. i]
\* (series [1,2,3,4,5], period 3: [undef, undef, 2, 3, 4]).
C8_SmaIsWindowMean ==
    /\ calculate_sma(<<Num(1), Num(2), Num(3), Num(4), Num(5)>>, 3)
          = <<NaN, NaN, Num(2), Num(3), Num(4)>>
    /\ ret.op = "calculate_sma"
        => /\ Len(ret.value) = Len(series)
           /\ \A i \in Indices(series) :
                 IF Len(series) < ArgPeriod \/ i < ArgPeriod - 1
                 THEN isnan(At(ret.value, i))
                 ELSE /\ IsFinite(At(ret.value, i))
                      /\ At(ret.value, i)[1] * ArgPeriod
                            = At(ret.value, i)[2] * WholeSum(series, i - ArgPeriod + 1, i + 1)

\* C8 witness: an SMA of period >= 2 whose last entry is not a whole number
C8_Witness ==
    /\ ret.op = "calculate_sma"
    /\ ArgPeriod >= 2
    /\ Len(series) > ArgPeriod
    /\ ret.value[Len(series)][2] > 1

\* C9: for len(series) >= period, calculate_ema is undefined before index period-1,
\* equals calculate_sma at index period-1, and for i >= period satisfies
\* ema[i] = (series[i] - ema[i-1]) * 2/(period+1) + ema[i-1], that is
\* (period+1) * ema[i] = 2 * series[i] + (period-1) * ema[i-1]; every entry from
\* period-1 on is defined.
C9_EmaRecurrence ==
    (ret.op = "calculate_ema" /\ Len(series) >= ArgPeriod)
        => \A i \in Indices(series) :
              IF i < ArgPeriod - 1 THEN isnan(At(ret.value, i))
              ELSE /\ IsFinite(At(ret.value, i))
                   /\ i = ArgPeriod - 1
                        => At(ret.value, i) = At(calculate_sma(series, ArgPeriod), i)
                   /\ i >= ArgPeriod
                        => FMul(Num(ArgPeriod + 1), At(ret.value, i))
                             = FAdd(FMul(Num(2), At(series, i)),
                                    FMul(Num(ArgPeriod - 1), At(ret.value, i - 1)))

\* C9 witness: an EMA of period >= 2 two steps past its warm-start, not a whole number
C9_Witness ==
    /\ ret.op = "calculate_ema"
    /\ ArgPeriod >= 2
    /\ Len(series) > ArgPeriod + 1
    /\ ret.value[Len(series)][2] > 1

\* C10: every defined entry of calculate_rsi lies in [0, 100]; every entry at an index
\* below period is undefined, and all are when len(series) <= period.
C10_RsiRange ==
    ret.op = "calculate_rsi"
        => \A i \in Indices(series) :
              /\ Defined(At(ret.value, i))
                    => /\ IsFinite(At(ret.value, i))
                       /\ FLeq(Num(0), At(ret.value, i))
                       /\ FLeq(At(ret.value, i), Num(100))
              /\ (i < ArgPeriod \/ Len(series) <= ArgPeriod) => isnan(At(ret.value, i))

\* C10 witness: an RSI past its warm-up with a value strictly between 0 and 100
C10_Witness ==
    /\ ret.op = "calculate_rsi"
    /\ Len(series) > ArgPeriod + 1
    /\ Defined(ret.value[Len(series)])
    /\ ret.value[Len(series)] # Num(0)
    /\ ret.value[Len(series)] # Num(100)

\* the sum of the squares of the integers s[lo..hi-1] (0-based) of a series of whole numbers
RECURSIVE WholeSumSq(_, _, _)
WholeSumSq(s, lo, hi) ==
    IF lo >= hi THEN 0 ELSE At(s, lo)[1] * At(s, lo)[1] + WholeSumSq(s, lo + 1, hi)

\* the sample variance (divisor n-1) of the n >= 2 whole numbers s[lo..hi-1]:
\* (n * sum(x^2) - sum(x)^2) / (n * (n-1))
SampleVariance(s, lo, hi) ==
    Norm((hi - lo) * WholeSumSq(s, lo, hi) - WholeSum(s, lo, hi) * WholeSum(s, lo, hi),
         (hi - lo) * (hi - lo - 1))

\* the sign of band - middle, for a band that is a rational or middle + coef*sqrt(rad)
OffsetSign(band, middle) ==
    IF IsSurd(band) THEN Sign(band[2][1]) ELSE Sign(FSub(band, middle)[1])

\* (band - middle)^2, for a band that is a rational or middle + coef*sqrt(rad)
OffsetSquared(band, middle) ==
    IF IsSurd(band) THEN FMul(FMul(band[2], band[2]), band[3])
    ELSE FMul(FSub(band, middle), FSub(band, middle))

\* C11: for period >= 2 and a width k >= 0, the three bands of calculate_bollinger_bands
\* are defined at exactly the same indices, those i >= period-1 of a series of at least
\* period values; there middle = SMA(series, period), upper >= middle >= lower, and
\* upper - middle = middle - lower = k times the sample standard deviation (divisor
\* period-1) of series[i-period+1 .. i].
C11_BollingerBands ==
    (ret.op = "calculate_bollinger_bands" /\ ArgPeriod >= 2)
        => \A i \in Indices(series) :
              IF Len(series) < ArgPeriod \/ i < ArgPeriod - 1
              THEN /\ isnan(At(ret.value[1], i))
                   /\ isnan(At(ret.value[2], i))
                   /\ isnan(At(ret.value[3], i))
              ELSE /\ Defined(At(ret.value[1], i))
                   /\ Defined(At(ret.value[3], i))
                   /\ IsFinite(At(ret.value[2], i))
                   /\ At(ret.value[2], i) = At(calculate_sma(series, ArgPeriod), i)
                   /\ IsSurd(At(ret.value[1], i)) => At(ret.value[1], i)[1] = At(ret.value[2], i)
                   /\ IsSurd(At(ret.value[3], i)) => At(ret.value[3], i)[1] = At(ret.value[2], i)
                   /\ OffsetSign(At(ret.value[1], i), At(ret.value[2], i)) >= 0
                   /\ OffsetSign(At(ret.value[3], i), At(ret.value[2], i)) <= 0
                   /\ OffsetSquared(At(ret.value[1], i), At(ret.value[2], i))
                        = FMul(FMul(ret.args[2], ret.args[2]),
                               SampleVariance(series, i - ArgPeriod + 1, i + 1))
                   /\ OffsetSquared(At(ret.value[3], i), At(ret.value[2], i))
                        = FMul(FMul(ret.args[2], ret.args[2]),
                               SampleVariance(series, i - ArgPeriod + 1, i + 1))

\* C11 witness: bands of the default width and a period >= 2 whose last window has a
\* standard deviation that is not rational, so upper > middle > lower there
C11_Witness ==
    /\ ret.op = "calculate_bollinger_bands"
    /\ ArgPeriod >= 2
    /\ ret.args[2] = Num(BOLLINGER_STD)
    /\ Len(series) > ArgPeriod
    /\ IsSurd(ret.value[1][Len(series)])
    /\ IsSurd(ret.value[3][Len(series)])

\* the map and the caches that apply_to_container leaves on a new store holding candles c
OnNewStore(c) == apply_to_container(c, None, None, None)

\* C12: apply_to_container is a function of the store's candle window only.  After any
\* history of add/clear/apply_to_container calls, the map it returns and the caches it
\* leaves are those it leaves on a new store holding the same candles, and with >= 14
\* candles they do not depend on what the caches held before; a second call with no
\* add() in between returns the same map and leaves the same caches; no call changes
\* the candle sequence.
C12_FunctionOfWindow ==
    /\ [][ret'.op = "apply_to_container"
            => /\ container' = container
               /\ ret.op = "apply_to_container"
                    => /\ ret'.value = ret.value
                       /\ <<last_rsi, last_moving_average, last_slope>>'
                            = <<last_rsi, last_moving_average, last_slope>>]_vars
    /\ [](ret.op = "apply_to_container"
            => /\ ret.value = OnNewStore(container).value
               /\ last_rsi = OnNewStore(container).last_rsi
               /\ last_moving_average = OnNewStore(container).last_moving_average
               /\ last_slope = OnNewStore(container).last_slope
               /\ Len(container) >= MIN_DATA_POINTS
                    => \A held \in {Num(0), Num(100)} :
                          apply_to_container(container, held, held, held)
                             = OnNewStore(container))

\* C12 witness: apply_to_container on a full store of 15 equal closes that earlier held
\* a higher close, since trimmed away: no RSI, no SMA(20), a slope of 0
C12_Witness ==
    /\ ret.op = "apply_to_container"
    /\ max_size = RSI_PERIOD + 1
    /\ Len(container) = max_size
    /\ Len(added) > Len(container)
    /\ FLeq(added[Len(added)].close, added[1].close)
    /\ added[1].close # added[Len(added)].close
    /\ container[1].close = container[Len(container)].close
    /\ last_rsi = None
    /\ last_moving_average = None
    /\ last_slope = Num(0)

====
